---- MODULE Spec2Model ----
(***************************************************************************)
(* The VMM supervisor of vmm/src/lib.rs: the epoll dispatch table, the     *)
(* driver loop of the "vmm" thread, Vmm::control_loop and Vmm::vm_reboot,  *)
(* together with the parties that act on it from outside: the HTTP thread  *)
(* (command channel and api_evt), the VM (clones of exit_evt / reset_evt)  *)
(* and the host standard input.                                            *)
(***************************************************************************)
EXTENDS Integers, Sequences, FiniteSets, TLC

\* Bounds of the model.
MaxCmds == 2        \* commands the HTTP thread enqueues in one behaviour
MaxSignals == 2     \* writes the VMs make to exit_evt and reset_evt together

\* const EPOLL_EVENTS_LEN: usize = 100;
EPOLL_EVENTS_LEN == 100

Configs == {"cfgA", "cfgB"}
Kinds == {"VmCreate", "VmBoot", "VmShutdown", "VmReboot"}

VARIABLES
    epoll,          \* Vmm.epoll: [dispatch_table, registered]
    isatty,         \* libc::isatty(STDIN_FILENO) != 0 at construction
    acpi,           \* cfg(feature = "acpi")
    exit_evt,       \* counter of the eventfd behind Vmm.exit_evt
    reset_evt,      \* counter of the eventfd behind Vmm.reset_evt
    api_evt,        \* counter of the eventfd behind Vmm.api_evt
    stdin_ready,    \* host stdin is readable
    chan,           \* the mpsc channel: the commands in flight, [kind, config]
    enqueued,       \* number of commands enqueued so far
    http_pc,        \* the producer: "idle" or "signal" (enqueued, not yet signalled)
    vm,             \* Vmm.vm: Option<Vm>
    newvm,          \* the value Vm::new returned, not yet stored in Vmm.vm
    pc,             \* position of the vmm thread
    batch,          \* events of the current wait not yet iterated (event.data)
    cur,            \* the command being dispatched, with what befell it
    caller,         \* who called vm_reboot: "driver" or "cmd"
    exit_behaviour, \* the value control_loop returned
    rb_result,      \* the value vm_reboot returns
    result,         \* the value the vmm thread returned ("running" before)
    calls,          \* Vm calls made by the vm_reboot, driver arm or Stdin arm last run
    sigs,           \* writes made to exit_evt and reset_evt so far
    resetCredit,    \* writes made to reset_evt less the reboots the driver began
    interrupted,    \* the wait being made is a retry after ErrorKind::Interrupted
    discarded       \* tokens of the events the Exit or Reset being served left unvisited

cfgVars == <<epoll, isatty, acpi>>
evtVars == <<exit_evt, reset_evt, api_evt>>
httpVars == <<chan, enqueued, http_pc>>
vmVars == <<vm, newvm>>
rbVars == <<caller, rb_result, calls>>
sentVars == <<sigs, resetCredit>>
vars == <<epoll, isatty, acpi, exit_evt, reset_evt, api_evt, stdin_ready,
          chan, enqueued, http_pc, vm, newvm, pc, batch, cur, caller,
          exit_behaviour, rb_result, result,
          calls, sigs, resetCredit, interrupted, discarded>>

-----------------------------------------------------------------------------
(* EpollContext *)

\* dispatch_table.push(None)
EpollContextNew == [dispatch_table |-> <<"None">>, registered |-> {}]

\* the mutant of add_event: registers the index after the push
add_event_after_push(ep, fd, token) ==
    [dispatch_table |-> Append(ep.dispatch_table, token),
     registered |-> ep.registered \cup
                      {[fd |-> fd, data |-> Len(ep.dispatch_table) + 1]}]

\* dispatch_index = dispatch_table.len(); epoll::ctl(ADD, fd, index); push(Some(token))
add_event(ep, fd, token) ==
    LET dispatch_index == Len(ep.dispatch_table)
    IN  [dispatch_table |-> Append(ep.dispatch_table, token),
         registered |-> ep.registered \cup
                          {[fd |-> fd, data |-> dispatch_index]}]

add_stdin(ep) ==
    LET dispatch_index == Len(ep.dispatch_table)
    IN  [dispatch_table |-> Append(ep.dispatch_table, "Stdin"),
         registered |-> ep.registered \cup
                          {[fd |-> "stdin", data |-> dispatch_index]}]

\* Vmm::new: the registrations, in the order the code makes them
VmmNew(tty) ==
    LET e0 == EpollContextNew
        e1 == IF tty THEN add_stdin(e0) ELSE e0
        e2 == add_event(e1, "exit_evt", "Exit")
        e3 == add_event(e2, "reset_evt", "Reset")
    IN  add_event(e3, "api_evt", "Api")

\* self.epoll.dispatch_table[dispatch_idx] (0-based; out of range panics)
TableAt(idx) ==
    IF idx + 1 \in DOMAIN epoll.dispatch_table
    THEN epoll.dispatch_table[idx + 1]
    ELSE "OutOfBounds"

-----------------------------------------------------------------------------
(* Values *)

NoVm == [some |-> FALSE, id |-> 0, config |-> "none", booted |-> FALSE, shutdowns |-> 0]

\* the Vm objects that exist
LiveVms == {v \in {vm, newvm} : v.some}

\* an identity no existing Vm object has
FreshId == CHOOSE i \in 1..3 : \A v \in LiveVms : v.id # i

\* what Vm::new returns on success
VmNew(config) ==
    [some |-> TRUE, id |-> FreshId, config |-> config, booted |-> FALSE, shutdowns |-> 0]

\* vm.boot() was called
Booted(v) == [v EXCEPT !.booted = TRUE]

\* vm.shutdown() was called: once, or more than once
ShutDown(v) == [v EXCEPT !.shutdowns = IF @ = 0 THEN 1 ELSE 2]

\* a call made on a Vm
Call(op, v) == [op |-> op, id |-> v.id, config |-> v.config]

NoCmd ==
    [kind |-> "none", config |-> "none", deq |-> "no", vmfail |-> FALSE, replies |-> <<>>]

\* the readiness of a mutant epoll that reports descriptors with nothing to read
ReadableSpurious(fd) == TRUE

\* a registered descriptor is readable (level-triggered EPOLLIN)
Readable(fd) ==
    CASE fd = "stdin" -> stdin_ready
      [] fd = "exit_evt" -> exit_evt > 0
      [] fd = "reset_evt" -> reset_evt > 0
      [] fd = "api_evt" -> api_evt > 0

Ready == {r \in epoll.registered : Readable(r.fd)}

\* the orders in which epoll::wait may fill the buffer with the set S of events
Orders(S) ==
    {s \in [1..Cardinality(S) -> S] : \A i, j \in 1..Cardinality(S) : i # j => s[i] # s[j]}

\* the tokens the events of b are dispatched to
Tokens(b) == {TableAt(b[i]) : i \in DOMAIN b}

\* the eventfd read of a mutant with EFD_SEMAPHORE semantics
EventFdReadSemaphore(counter) == counter - 1

\* EventFd::read: consumes the whole counter
EventFdRead(counter) == 0

\* an error leaves the thread closure: the events buffer is dropped with the frame
Fatal(e) == pc' = "done" /\ result' = e /\ batch' = <<>>

-----------------------------------------------------------------------------
Init ==
    /\ isatty \in BOOLEAN
    /\ acpi \in BOOLEAN
    /\ epoll = VmmNew(isatty)
    /\ exit_evt = 0 /\ reset_evt = 0 /\ api_evt = 0
    /\ stdin_ready = FALSE
    /\ chan = <<>> /\ enqueued = 0 /\ http_pc = "idle"
    /\ vm = NoVm /\ newvm = NoVm
    /\ pc = "wait" /\ batch = <<>> /\ cur = NoCmd /\ caller = "none"
    /\ exit_behaviour = "none" /\ rb_result = "none" /\ result = "running"
    /\ calls = <<>>
    /\ sigs = 0 /\ resetCredit = 0 /\ interrupted = FALSE
    /\ discarded = {}

-----------------------------------------------------------------------------
(* The parties outside the vmm thread. They act while the vmm thread runs: *)
(* the process ends when the thread returns.                              *)

\* the producer sends a command on the channel ...
HttpEnqueue ==
    /\ result = "running"
    /\ http_pc = "idle"
    /\ enqueued < MaxCmds
    /\ \E k \in Kinds : \E c \in Configs :
          chan' = Append(chan, [kind |-> k,
                                config |-> IF k = "VmCreate" THEN c ELSE "none"])
    /\ enqueued' = enqueued + 1
    /\ http_pc' = "signal"
    /\ UNCHANGED <<cfgVars, discarded, evtVars, stdin_ready, vmVars, pc, batch, cur,
                   exit_behaviour, result, rbVars, sentVars, interrupted>>

\* ... and then writes 1 to its clone of api_evt
HttpSignal ==
    /\ result = "running"
    /\ http_pc = "signal"
    /\ api_evt' = api_evt + 1
    /\ http_pc' = "idle"
    /\ UNCHANGED <<cfgVars, discarded, exit_evt, reset_evt, stdin_ready, chan, enqueued, vmVars,
                   pc, batch, cur, exit_behaviour, result, rbVars,
                   sentVars, interrupted>>

\* a Vm writes to the clone of exit_evt it was constructed with
VmSignalExit ==
    /\ result = "running"
    /\ LiveVms # {}
    /\ sigs < MaxSignals
    /\ exit_evt' = exit_evt + 1
    /\ sigs' = sigs + 1
    /\ UNCHANGED <<cfgVars, discarded, reset_evt, api_evt, stdin_ready, httpVars, vmVars, pc,
                   batch, cur, exit_behaviour, result, rbVars,
                   resetCredit, interrupted>>

\* a Vm writes to the clone of reset_evt it was constructed with
VmSignalReset ==
    /\ result = "running"
    /\ LiveVms # {}
    /\ sigs < MaxSignals
    /\ reset_evt' = reset_evt + 1
    /\ sigs' = sigs + 1
    /\ resetCredit' = resetCredit + 1
    /\ UNCHANGED <<cfgVars, discarded, exit_evt, api_evt, stdin_ready, httpVars, vmVars, pc,
                   batch, cur, exit_behaviour, result, rbVars,
                   interrupted>>

\* input arrives on the host stdin
StdinInput ==
    /\ result = "running"
    /\ ~stdin_ready
    /\ stdin_ready' = TRUE
    /\ UNCHANGED <<cfgVars, discarded, evtVars, httpVars, vmVars, pc, batch, cur,
                   exit_behaviour, result, rbVars, sentVars,
                   interrupted>>

-----------------------------------------------------------------------------
(* Vmm::control_loop *)

\* the Err arm of a mutant that does not test e.kind(): every failure is returned
WaitInterruptedReturned ==
    /\ pc = "wait"
    /\ interrupted' = TRUE
    /\ Fatal("Err_Epoll")
    /\ UNCHANGED <<cfgVars, discarded, evtVars, stdin_ready, httpVars, vmVars, cur,
                   exit_behaviour, rbVars, sentVars>>

\* epoll::wait fails with ErrorKind::Interrupted: continue
WaitInterrupted ==
    /\ pc = "wait"
    /\ interrupted' = TRUE
    /\ UNCHANGED <<cfgVars, discarded, evtVars, stdin_ready, httpVars, vmVars, pc, batch, cur,
                   exit_behaviour, result, rbVars, sentVars>>

\* epoll::wait fails with any other error: return Err(Error::Epoll(e))
WaitFail ==
    /\ pc = "wait"
    /\ Fatal("Err_Epoll")
    /\ interrupted' = FALSE
    /\ UNCHANGED <<cfgVars, discarded, evtVars, stdin_ready, httpVars, vmVars, cur,
                   exit_behaviour, rbVars, sentVars>>

\* epoll::wait returns the ready events, at most EPOLL_EVENTS_LEN of them
WaitReturn ==
    /\ pc = "wait"
    /\ Ready # {}
    /\ Cardinality(Ready) <= EPOLL_EVENTS_LEN
    /\ \E order \in Orders(Ready) :
          batch' = [i \in 1..Cardinality(Ready) |-> order[i].data]
    /\ pc' = "events"
    /\ interrupted' = FALSE
    /\ UNCHANGED <<cfgVars, discarded, evtVars, stdin_ready, httpVars, vmVars, cur,
                   exit_behaviour, result, rbVars, sentVars>>

\* the for loop: the batch is exhausted, or the entry of the table is None
NextEvent ==
    /\ pc = "events"
    /\ IF batch = <<>>
       THEN pc' = "wait" /\ UNCHANGED <<batch, result>>
       ELSE IF TableAt(Head(batch)) = "OutOfBounds"
       THEN Fatal("Panic")
       ELSE /\ TableAt(Head(batch)) = "None"
            /\ batch' = Tail(batch)
            /\ UNCHANGED <<pc, result>>
    /\ calls' = <<>>
    /\ UNCHANGED <<cfgVars, discarded, evtVars, stdin_ready, httpVars, vmVars, cur,
                   exit_behaviour, caller, rb_result, sentVars, interrupted>>

\* EpollDispatch::Exit
DispatchExit ==
    /\ pc = "events" /\ batch # <<>>
    /\ TableAt(Head(batch)) = "Exit"
    /\ IF exit_evt = 0
       THEN Fatal("Err_EventFdRead") /\ UNCHANGED <<exit_evt, exit_behaviour, discarded>>
       ELSE /\ exit_evt' = EventFdRead(exit_evt)
            /\ exit_behaviour' = "Shutdown"
            /\ pc' = "ret" /\ batch' = <<>>
            /\ discarded' = Tokens(Tail(batch))
            /\ UNCHANGED result
    /\ calls' = <<>>
    /\ UNCHANGED <<cfgVars, reset_evt, api_evt, stdin_ready, httpVars, vmVars, cur, caller, rb_result, sentVars, interrupted>>

\* the Reset arm of a mutant that consumes every pending event before it breaks
DispatchResetDrainingAll ==
    /\ pc = "events" /\ batch # <<>>
    /\ TableAt(Head(batch)) = "Reset"
    /\ reset_evt > 0
    /\ reset_evt' = 0 /\ exit_evt' = 0 /\ api_evt' = 0
    /\ exit_behaviour' = "Reset"
    /\ pc' = "ret" /\ batch' = <<>>
    /\ discarded' = Tokens(Tail(batch))
    /\ calls' = <<>>
    /\ UNCHANGED <<cfgVars, stdin_ready, httpVars, vmVars, cur, caller, rb_result, sentVars,
                   interrupted, result>>

\* EpollDispatch::Reset
DispatchReset ==
    /\ pc = "events" /\ batch # <<>>
    /\ TableAt(Head(batch)) = "Reset"
    /\ IF reset_evt = 0
       THEN Fatal("Err_EventFdRead") /\ UNCHANGED <<reset_evt, exit_behaviour, discarded>>
       ELSE /\ reset_evt' = EventFdRead(reset_evt)
            /\ exit_behaviour' = "Reset"
            /\ pc' = "ret" /\ batch' = <<>>
            /\ discarded' = Tokens(Tail(batch))
            /\ UNCHANGED result
    /\ calls' = <<>>
    /\ UNCHANGED <<cfgVars, exit_evt, api_evt, stdin_ready, httpVars, vmVars, cur, caller, rb_result, sentVars, interrupted>>

\* the Stdin arm of a mutant that forwards the input twice
handle_stdin_twice(slot, ok) ==
    IF slot.some
    THEN <<Call("handle_stdin", slot),
           Call(IF ok THEN "handle_stdin" ELSE "handle_stdin_err", slot)>>
    ELSE <<>>

\* if let Some(ref vm) = self.vm { vm.handle_stdin() }: the calls made
handle_stdin(slot, ok) ==
    IF slot.some
    THEN <<Call(IF ok THEN "handle_stdin" ELSE "handle_stdin_err", slot)>>
    ELSE <<>>

\* EpollDispatch::Stdin: vm.handle_stdin() reads the input, or fails
DispatchStdin ==
    /\ pc = "events" /\ batch # <<>>
    /\ TableAt(Head(batch)) = "Stdin"
    /\ IF vm.some
       THEN \E ok \in BOOLEAN :
              /\ calls' = handle_stdin(vm, ok)
              /\ IF ok
                 THEN /\ stdin_ready' = FALSE
                      /\ batch' = Tail(batch)
                      /\ UNCHANGED <<pc, result>>
                 ELSE Fatal("Err_Stdin") /\ UNCHANGED stdin_ready
       ELSE /\ calls' = handle_stdin(vm, TRUE)
            /\ batch' = Tail(batch)
            /\ UNCHANGED <<pc, result, stdin_ready>>
    /\ UNCHANGED <<cfgVars, discarded, evtVars, httpVars, vmVars, cur, exit_behaviour,
                   caller, rb_result, sentVars, interrupted>>

\* EpollDispatch::Api: self.api_evt.read()
DispatchApi ==
    /\ pc = "events" /\ batch # <<>>
    /\ TableAt(Head(batch)) = "Api"
    /\ IF api_evt = 0
       THEN Fatal("Err_EventFdRead") /\ UNCHANGED api_evt
       ELSE /\ api_evt' = EventFdRead(api_evt)
            /\ pc' = "recv" /\ batch' = Tail(batch)
            /\ UNCHANGED result
    /\ calls' = <<>>
    /\ UNCHANGED <<cfgVars, discarded, exit_evt, reset_evt, stdin_ready, httpVars, vmVars, cur,
                   exit_behaviour, caller, rb_result, sentVars, interrupted>>

\* api_receiver.recv() returned the command at the head of the channel
Received(kind) ==
    /\ pc = "recv"
    /\ chan # <<>>
    /\ Head(chan).kind = kind
    /\ chan' = Tail(chan)

\* the command being received, with the state of the slot it meets
Dequeued ==
    [kind |-> Head(chan).kind, config |-> Head(chan).config,
     deq |-> IF vm.some THEN "some" ELSE "none", vmfail |-> FALSE, replies |-> <<>>]

\* sender.send(response) succeeded: the reply is with the command's sender
Replied(c, reply) == [c EXCEPT !.replies = Append(@, reply)]

\* a VM-level failure met while command c is dispatched
Failed(c) == [c EXCEPT !.vmfail = TRUE]

\* the VmBoot / VmShutdown arm of a mutant with an else branch that answers
NoVmAnswered(c) == Replied(c, "Err_NoVm")

\* VmBoot / VmShutdown with self.vm = None: the if let has no else, nothing is sent
NoVm_arm(c) == c

-----------------------------------------------------------------------------
(* Command dispatch: the arms of the match on api_request *)

\* the slot of a mutant that takes the VM out of self.vm before it calls Vm::new
SlotClearedAfterFailedCreate(old) == NoVm

\* Err(e) => Err(ApiError::VmCreate(e)): self.vm is not assigned
SlotAfterFailedCreate(old) == old

\* ApiRequest::VmCreate, up to the return of Vm::new: the clones of exit_evt
\* and reset_evt, Vm::new, and on Err(e) the reply Err(ApiError::VmCreate(e))
VmCreateNew ==
    /\ Received("VmCreate")
    /\ \E o \in {"ok", "clone_err", "new_err", "new_err_send_err"} :
          /\ CASE o = "ok" ->
                 /\ newvm' = VmNew(Head(chan).config)
                 /\ cur' = Dequeued
                 /\ pc' = "create_store"
                 /\ UNCHANGED <<batch, result>>
            [] o = "clone_err" ->
                 /\ Fatal("Err_EventFdClone")
                 /\ cur' = Dequeued
                 /\ UNCHANGED newvm
            [] o = "new_err" ->
                 /\ cur' = Replied(Failed(Dequeued), "Err_VmCreate")
                 /\ pc' = "arm_end"
                 /\ UNCHANGED <<newvm, batch, result>>
            [] o = "new_err_send_err" ->
                 /\ Fatal("Err_ApiResponseSend")
                 /\ cur' = Failed(Dequeued)
                 /\ UNCHANGED newvm
          /\ vm' = IF o \in {"new_err", "new_err_send_err"}
                   THEN SlotAfterFailedCreate(vm)
                   ELSE vm
    /\ UNCHANGED <<cfgVars, discarded, evtVars, stdin_ready, enqueued, http_pc,
                   exit_behaviour, rbVars, sentVars, interrupted>>

\* ApiRequest::VmCreate, Ok(vm): self.vm = Some(vm); the reply Ok(Empty)
VmCreateStore ==
    /\ pc = "create_store"
    /\ vm' = newvm
    /\ newvm' = NoVm
    /\ \E sent \in BOOLEAN :
          IF sent
          THEN /\ cur' = Replied(cur, "Ok")
               /\ pc' = "arm_end"
               /\ UNCHANGED <<batch, result>>
          ELSE Fatal("Err_ApiResponseSend") /\ UNCHANGED cur
    /\ UNCHANGED <<cfgVars, discarded, evtVars, stdin_ready, httpVars, exit_behaviour,
                   rbVars, sentVars, interrupted>>

\* ApiRequest::VmBoot: if let Some(vm) = self.vm { vm.boot(); sender.send(response)? }
VmBoot ==
    /\ Received("VmBoot")
    /\ IF vm.some
       THEN \E ok, sent \in BOOLEAN :
              /\ vm' = Booted(vm)
              /\ IF sent
                 THEN /\ cur' = IF ok THEN Replied(Dequeued, "Ok")
                              ELSE Replied(Failed(Dequeued), "Err_VmBoot")
                      /\ pc' = "arm_end"
                      /\ UNCHANGED <<batch, result>>
                 ELSE /\ Fatal("Err_ApiResponseSend")
                      /\ cur' = IF ok THEN Dequeued ELSE Failed(Dequeued)
       ELSE /\ cur' = NoVm_arm(Dequeued)
            /\ pc' = "arm_end"
            /\ UNCHANGED <<vm, batch, result>>
    /\ UNCHANGED <<cfgVars, discarded, evtVars, stdin_ready, enqueued, http_pc, newvm,
                   exit_behaviour, rbVars, sentVars, interrupted>>

\* ApiRequest::VmShutdown: if let Some(vm) = self.vm { vm.shutdown(); sender.send(response)? }
VmShutdown ==
    /\ Received("VmShutdown")
    /\ IF vm.some
       THEN \E ok, sent \in BOOLEAN :
              /\ vm' = ShutDown(vm)
              /\ IF sent
                 THEN /\ cur' = IF ok THEN Replied(Dequeued, "Ok")
                              ELSE Replied(Failed(Dequeued), "Err_VmShutdown")
                      /\ pc' = "arm_end"
                      /\ UNCHANGED <<batch, result>>
                 ELSE /\ Fatal("Err_ApiResponseSend")
                      /\ cur' = IF ok THEN Dequeued ELSE Failed(Dequeued)
       ELSE /\ cur' = NoVm_arm(Dequeued)
            /\ pc' = "arm_end"
            /\ UNCHANGED <<vm, batch, result>>
    /\ UNCHANGED <<cfgVars, discarded, evtVars, stdin_ready, enqueued, http_pc, newvm,
                   exit_behaviour, rbVars, sentVars, interrupted>>

\* ApiRequest::VmReboot: self.vm_reboot() is called
VmReboot ==
    /\ Received("VmReboot")
    /\ cur' = Dequeued
    /\ caller' = "cmd"
    /\ calls' = <<>>
    /\ pc' = "rb_start"
    /\ UNCHANGED <<cfgVars, discarded, evtVars, stdin_ready, enqueued, http_pc, vmVars, batch,
                   exit_behaviour, result, rb_result, sentVars, interrupted>>

\* the arm of the match is left: the next event of the batch
ArmEnd ==
    /\ pc = "arm_end"
    /\ cur' = NoCmd
    /\ pc' = "events"
    /\ UNCHANGED <<cfgVars, discarded, evtVars, stdin_ready, httpVars, vmVars, batch,
                   exit_behaviour, result, rbVars, sentVars, interrupted>>

-----------------------------------------------------------------------------
(* Vmm::vm_reboot *)

\* the config of a mutant that rebuilds the VM from a fixed config
RebootConfigFixed(v) == "cfgA"

\* let config = vm.get_config();
RebootConfig(v) == v.config

\* the slot of a mutant that clears self.vm when Vm::new fails
SlotClearedAfterFailedNew(old) == NoVm

\* self.vm = Some(Vm::new(..)?): on Err the assignment is not made
SlotAfterFailedNew(old) == old

\* the slot of a mutant that takes the VM out of self.vm to rebuild it
SlotTakenWhileRebuilt(old) == NoVm

\* if let Some(ref mut vm) = self.vm: the VM is borrowed, the slot keeps it
\* until self.vm = Some(..) is executed
SlotWhileRebuilt(old) == old

\* the slot of a mutant that boots the new VM before it stores it
SlotKeptAfterFailedBoot(old, new) == old

\* self.vm = Some(..) is executed before vm.boot(): a failed boot leaves the
\* new VM in the slot
SlotAfterFailedBoot(old, new) == new

\* a mutant built without the cfg(not(feature = "acpi")) block
RebootIsShutdownNever(feature) == FALSE

\* #[cfg(not(feature = "acpi"))] { .. vm.shutdown()?; return Ok(()); }
RebootIsShutdown(feature) == ~feature

\* a mutant whose VmReboot arm calls self.vm_reboot()?
RebootFailureFatalAlways(who) == TRUE

\* a mutant whose driver ignores the value of vmm.vm_reboot()
RebootFailureFatalNever(who) == FALSE

\* an Err of vm_reboot leaves the thread from the driver (vmm.vm_reboot()?),
\* not from the VmReboot arm (Err(_) => Err(ApiError::VmReboot))
RebootFailureFatal(who) == who = "driver"

\* a VM-level failure of vm_reboot is recorded with the command that called it
NoteFailure == IF caller = "cmd" THEN Failed(cur) ELSE cur

\* if let Some(vm) = self.vm { config = vm.get_config(); vm.shutdown()?;
\* try_clone()?; try_clone()?; Vm::new(config, ..)? }, up to the return of
\* Vm::new; without the acpi feature: vm.shutdown()?; return Ok(())
RebootShutdown ==
    /\ pc = "rb_start"
    /\ IF vm.some
       THEN \E o \in {"ok", "shutdown_err", "clone_err", "new_err"} :
              LET config == RebootConfig(vm)
                  full == ~RebootIsShutdown(acpi)
              IN
              /\ vm' = IF o = "new_err" /\ full
                       THEN SlotAfterFailedNew(ShutDown(vm))
                       ELSE IF o = "ok" /\ full
                       THEN SlotWhileRebuilt(ShutDown(vm))
                       ELSE ShutDown(vm)
              /\ CASE o = "shutdown_err" ->
                        /\ rb_result' = "Err_VmShutdown" /\ pc' = "rb_ret"
                        /\ calls' = <<Call("shutdown", vm)>>
                        /\ cur' = NoteFailure
                        /\ UNCHANGED newvm
                   [] o = "ok" /\ ~full ->
                        /\ rb_result' = "Ok" /\ pc' = "rb_ret"
                        /\ calls' = <<Call("shutdown", vm)>>
                        /\ UNCHANGED <<newvm, cur>>
                   [] o = "clone_err" /\ full ->
                        /\ rb_result' = "Err_EventFdClone" /\ pc' = "rb_ret"
                        /\ calls' = <<Call("shutdown", vm)>>
                        /\ UNCHANGED <<newvm, cur>>
                   [] o = "new_err" /\ full ->
                        /\ rb_result' = "Err_VmCreate" /\ pc' = "rb_ret"
                        /\ calls' = <<Call("shutdown", vm)>>
                        /\ cur' = NoteFailure
                        /\ UNCHANGED newvm
                   [] o = "ok" /\ full ->
                        /\ newvm' = VmNew(config)
                        /\ calls' = <<Call("shutdown", vm), Call("new", VmNew(config))>>
                        /\ pc' = "rb_store"
                        /\ UNCHANGED <<rb_result, cur>>
                   [] OTHER -> FALSE
       ELSE /\ rb_result' = "Ok" /\ pc' = "rb_ret"
            /\ UNCHANGED <<vm, newvm, calls, cur>>
    /\ UNCHANGED <<cfgVars, discarded, evtVars, stdin_ready, httpVars, batch, caller,
                   exit_behaviour, result, sentVars, interrupted>>

\* self.vm = Some(..); if let Some(vm) = self.vm { vm.boot().map_err(Error::VmBoot)? }
RebootStore ==
    /\ pc = "rb_store"
    /\ newvm' = NoVm
    /\ calls' = Append(calls, Call("boot", newvm))
    /\ \E ok \in BOOLEAN :
          /\ vm' = IF ok THEN Booted(newvm) ELSE SlotAfterFailedBoot(vm, Booted(newvm))
          /\ rb_result' = IF ok THEN "Ok" ELSE "Err_VmBoot"
          /\ cur' = IF ok THEN cur ELSE NoteFailure
    /\ pc' = "rb_ret"
    /\ UNCHANGED <<cfgVars, discarded, evtVars, stdin_ready, httpVars, batch, caller,
                   exit_behaviour, result, sentVars, interrupted>>

\* vm_reboot returns: to the driver (vmm.vm_reboot()?; continue 'outer), or to
\* the VmReboot arm (Ok(_) => Ok(Empty), Err(_) => Err(ApiError::VmReboot),
\* sender.send(response)?)
RebootReturn ==
    /\ pc = "rb_ret"
    /\ IF rb_result # "Ok" /\ RebootFailureFatal(caller)
       THEN Fatal(rb_result) /\ UNCHANGED cur
       ELSE IF caller = "driver"
       THEN pc' = "wait" /\ batch' = <<>> /\ UNCHANGED <<result, cur>>
       ELSE \E sent \in BOOLEAN :
              IF sent
              THEN /\ cur' = Replied(cur, IF rb_result = "Ok" THEN "Ok"
                                           ELSE "Err_VmReboot")
                   /\ pc' = "arm_end"
                   /\ UNCHANGED <<batch, result>>
              ELSE Fatal("Err_ApiResponseSend") /\ UNCHANGED cur
    /\ caller' = "none" /\ rb_result' = "none" /\ calls' = <<>>
    /\ discarded' = {}
    /\ UNCHANGED <<cfgVars, evtVars, stdin_ready, httpVars, vmVars,
                   exit_behaviour, sentVars, interrupted>>

-----------------------------------------------------------------------------
(* The driver: the 'outer loop of the vmm thread *)

\* Ok(ExitBehaviour::Reset) => vmm.vm_reboot()
DriverReset ==
    /\ pc = "ret"
    /\ exit_behaviour = "Reset"
    /\ caller' = "driver"
    /\ calls' = <<>>
    /\ resetCredit' = resetCredit - 1
    /\ exit_behaviour' = "none"
    /\ pc' = "rb_start"
    /\ UNCHANGED <<cfgVars, discarded, evtVars, stdin_ready, httpVars, vmVars, batch, cur, result, rb_result, sigs, interrupted>>

\* a mutant whose driver drops the value of vm.shutdown() and breaks
DriverExitIgnoringFailure(ok) == "Ok"

\* vm.shutdown().map_err(Error::VmShutdown)?; break 'outer; Ok(())
DriverExit(ok) == IF ok THEN "Ok" ELSE "Err_VmShutdown"

\* Ok(ExitBehaviour::Shutdown) => if let Some(vm) = vmm.vm { vm.shutdown()? }; Ok(())
DriverShutdown ==
    /\ pc = "ret"
    /\ exit_behaviour = "Shutdown"
    /\ IF vm.some
       THEN \E ok \in BOOLEAN :
              /\ vm' = ShutDown(vm)
              /\ calls' = <<Call(IF ok THEN "shutdown" ELSE "shutdown_err", vm)>>
              /\ result' = DriverExit(ok)
       ELSE result' = "Ok" /\ UNCHANGED <<vm, calls>>
    /\ pc' = "done"
    /\ discarded' = {}
    /\ UNCHANGED <<cfgVars, evtVars, stdin_ready, httpVars, newvm, batch,
                   cur, exit_behaviour, caller, rb_result, sentVars,
                   interrupted>>

-----------------------------------------------------------------------------
Next ==
    \/ HttpEnqueue \/ HttpSignal \/ VmSignalExit \/ VmSignalReset \/ StdinInput
    \/ WaitInterrupted \/ WaitFail \/ WaitReturn \/ NextEvent
    \/ DispatchExit \/ DispatchReset \/ DispatchStdin \/ DispatchApi
    \/ VmCreateNew \/ VmCreateStore \/ VmBoot \/ VmShutdown \/ VmReboot \/ ArmEnd
    \/ RebootShutdown \/ RebootStore \/ RebootReturn
    \/ DriverReset \/ DriverShutdown

Spec == Init /\ [][Next]_vars

-----------------------------------------------------------------------------
(* A producer that signals before it enqueues, and may go away *)

\* the producer writes api_evt before it has sent the command ...
HttpSignalFirst ==
    /\ result = "running"
    /\ http_pc = "idle"
    /\ enqueued < MaxCmds
    /\ api_evt' = api_evt + 1
    /\ http_pc' = "enqueue"
    /\ UNCHANGED <<cfgVars, discarded, exit_evt, reset_evt, stdin_ready, chan, enqueued,
                   vmVars, pc, batch, cur, exit_behaviour, result, rbVars,
                   sentVars, interrupted>>

\* ... and sends it afterwards
HttpEnqueueLate ==
    /\ result = "running"
    /\ http_pc = "enqueue"
    /\ \E k \in Kinds : \E c \in Configs :
          chan' = Append(chan, [kind |-> k,
                                config |-> IF k = "VmCreate" THEN c ELSE "none"])
    /\ enqueued' = enqueued + 1
    /\ http_pc' = "idle"
    /\ UNCHANGED <<cfgVars, discarded, evtVars, stdin_ready, vmVars, pc, batch, cur,
                   exit_behaviour, result, rbVars, sentVars, interrupted>>

\* the producer ends and drops the Sender, with or without a command owed
HttpClose ==
    /\ result = "running"
    /\ http_pc \in {"idle", "enqueue"}
    /\ http_pc' = "closed"
    /\ UNCHANGED <<cfgVars, discarded, evtVars, stdin_ready, chan, enqueued, vmVars,
                   pc, batch, cur, exit_behaviour, result, rbVars, sentVars,
                   interrupted>>

\* the recv of a mutant that calls try_recv: an empty channel is an error
RecvTry ==
    /\ pc = "recv"
    /\ chan = <<>>
    /\ Fatal("Err_ApiRequestRecv")
    /\ UNCHANGED <<cfgVars, discarded, evtVars, stdin_ready, httpVars, vmVars, cur,
                   exit_behaviour, rbVars, sentVars, interrupted>>

\* api_receiver.recv().map_err(Error::ApiRequestRecv)?: recv fails once the
\* channel is empty and every Sender is gone
RecvClosed ==
    /\ pc = "recv"
    /\ chan = <<>>
    /\ http_pc = "closed"
    /\ Fatal("Err_ApiRequestRecv")
    /\ UNCHANGED <<cfgVars, discarded, evtVars, stdin_ready, httpVars, vmVars, cur,
                   exit_behaviour, rbVars, sentVars, interrupted>>

\* the vmm thread with the VM, the host stdin and this producer
NextSignalFirst ==
    \/ HttpSignalFirst \/ HttpEnqueueLate \/ HttpClose
    \/ VmSignalExit \/ VmSignalReset \/ StdinInput
    \/ WaitInterrupted \/ WaitFail \/ WaitReturn \/ NextEvent
    \/ DispatchExit \/ DispatchReset \/ DispatchStdin \/ DispatchApi
    \/ RecvClosed
    \/ VmCreateNew \/ VmCreateStore \/ VmBoot \/ VmShutdown \/ VmReboot \/ ArmEnd
    \/ RebootShutdown \/ RebootStore \/ RebootReturn
    \/ DriverReset \/ DriverShutdown

SpecSignalFirst == Init /\ [][NextSignalFirst]_vars

-----------------------------------------------------------------------------
(* Properties *)

VmErrors == {"Err_VmCreate", "Err_VmBoot", "Err_VmShutdown"}

\* the index a descriptor is registered with
IdxOf(fd) == (CHOOSE r \in epoll.registered : r.fd = fd).data

InBatch(b, fd) == \E i \in DOMAIN b : b[i] = IdxOf(fd)

\* the vmm thread takes a step out of the for loop's current event
EventStep == pc = "events" /\ batch # <<>> /\ <<pc, batch>>' # <<pc, batch>>

\* C1: a command whose dispatch ended without a fatal error was sent exactly
\* one reply if it is a VmCreate or a VmReboot, or a VmBoot or VmShutdown
\* dequeued while the slot was Some, and no reply if it is a VmBoot or
\* VmShutdown dequeued while the slot was None; no command is ever sent two.
C1_ExactlyOneReply ==
    /\ Len(cur.replies) <= 1
    /\ pc = "arm_end" =>
         /\ cur.kind \in {"VmCreate", "VmReboot"} => Len(cur.replies) = 1
         /\ cur.kind \in {"VmBoot", "VmShutdown"} /\ cur.deq = "some" =>
               Len(cur.replies) = 1
         /\ cur.kind \in {"VmBoot", "VmShutdown"} /\ cur.deq = "none" =>
               Len(cur.replies) = 0

C1_Witness ==
    pc = "arm_end" /\ cur.kind = "VmBoot" /\ cur.deq = "none" /\ cur.replies = <<>>

\* C2: a failure of Vm::new, vm.boot or vm.shutdown met while a command is
\* dispatched never ends the thread with that error: the command is answered
\* with an Err reply and the loop goes on to the next event (the thread ends
\* during such a dispatch only when the reply cannot be sent).
C2_VmFailureIsReplied ==
    /\ cur.vmfail => pc \in {"arm_end", "rb_ret", "done"}
    /\ cur.vmfail /\ pc = "arm_end" =>
         /\ Len(cur.replies) = 1
         /\ cur.replies[1] \in {"Err_VmCreate", "Err_VmBoot", "Err_VmShutdown",
                                "Err_VmReboot"}
    /\ cur.kind # "none" /\ pc = "done" =>
         result \in {"Err_EventFdClone", "Err_ApiResponseSend"}

C2_Witness ==
    /\ pc = "arm_end" /\ cur.kind = "VmReboot" /\ cur.vmfail
    /\ cur.replies = <<"Err_VmReboot">> /\ result = "running"

\* C3: when the loop reaches the Exit event of a batch it reads exit_evt down
\* to zero and returns Shutdown at once, and a wait that returns while
\* exit_evt is non-zero delivers the Exit event; the same for reset_evt, the
\* Reset event and the outcome Reset.
C3_SignalEndsLoop ==
    [][/\ EventStep /\ TableAt(Head(batch)) = "Exit" =>
            pc' = "ret" /\ exit_behaviour' = "Shutdown" /\ exit_evt' = 0
       /\ EventStep /\ TableAt(Head(batch)) = "Reset" =>
            pc' = "ret" /\ exit_behaviour' = "Reset" /\ reset_evt' = 0
       /\ pc = "wait" /\ pc' = "events" /\ exit_evt > 0 => InBatch(batch', "exit_evt")
       /\ pc = "wait" /\ pc' = "events" /\ reset_evt > 0 => InBatch(batch', "reset_evt")
      ]_vars

C3_Witness ==
    pc = "ret" /\ exit_behaviour = "Shutdown" /\ sigs = 1 /\ exit_evt = 0

\* C4: an interrupted wait leaves the thread in wait with nothing else changed
\* and no error, however often it happens; wait then returns events or
\* fails, and only a failing wait makes control_loop return Err(Epoll).
C4_InterruptedWaitRetries ==
    /\ [](interrupted => pc = "wait" /\ result = "running")
    /\ [][/\ interrupted' /\ ~interrupted =>
               /\ pc = "wait" /\ pc' = "wait"
               /\ UNCHANGED <<cfgVars, evtVars, stdin_ready, httpVars, vmVars,
                              batch, cur, exit_behaviour, result, rbVars, sentVars,
                              discarded>>
          /\ interrupted /\ ~interrupted' =>
               \/ pc' = "events" /\ batch' # <<>> /\ result' = "running"
               \/ pc' = "done" /\ result' = "Err_Epoll"
          /\ result' = "Err_Epoll" /\ result # "Err_Epoll" =>
               pc = "wait" /\ ~interrupted'
         ]_vars

C4_Witness ==
    interrupted /\ pc = "wait" /\ exit_evt = 1 /\ result = "running"

\* C5: with the acpi feature, a vm_reboot the driver makes on a held VM is, in
\* this order, shutdown of the old VM, Vm::new with the old VM's config, and
\* boot of the new VM, which the slot then holds; the driver then waits in
\* control_loop again with the epoll registrations unchanged; and the driver
\* begins no more reboots than reset_evt was written to.
C5_RebootDone ==
    acpi /\ pc = "rb_ret" /\ caller = "driver" /\ rb_result = "Ok" /\ vm.some

C5_RebootCycle ==
    /\ [](resetCredit >= 0)
    /\ [](C5_RebootDone =>
            /\ Len(calls) = 3
            /\ calls[1].op = "shutdown"
            /\ calls[2].op = "new" /\ calls[2].config = calls[1].config
            /\ calls[2].id # calls[1].id
            /\ calls[3].op = "boot" /\ calls[3].id = calls[2].id
            /\ vm.id = calls[2].id /\ vm.config = calls[1].config
            /\ vm.booted /\ vm.shutdowns = 0
            /\ newvm = NoVm)
    /\ [][C5_RebootDone /\ pc' # pc =>
            /\ pc' = "wait" /\ batch' = <<>> /\ result' = "running"
            /\ vm' = vm /\ epoll' = epoll
         ]_vars

C5_Witness ==
    /\ acpi /\ pc = "wait" /\ result = "running"
    /\ sigs = 1 /\ resetCredit = 0 /\ reset_evt = 0 /\ exit_evt = 0
    /\ vm.some /\ vm.booted /\ vm.shutdowns = 0 /\ vm.config = "cfgB"

\* C6, as claimed: every Err of vm_reboot ends the thread with that error,
\* whoever called vm_reboot.
C6_EveryRebootFailureFatal ==
    [][pc = "rb_ret" /\ rb_result # "Ok" /\ pc' # pc =>
          pc' = "done" /\ result' = rb_result]_vars

\* C6, amended: an Err of a vm_reboot the driver called ends the thread with
\* that error; an Err of a vm_reboot the VmReboot arm called does not: it is
\* answered with Err(ApiError::VmReboot) and the loop goes on (the thread ends
\* there only with ApiResponseSend, when the reply cannot be sent).
C6_DriverRebootFailureFatal ==
    [][pc = "rb_ret" /\ rb_result # "Ok" /\ pc' # pc =>
          /\ caller = "driver" => pc' = "done" /\ result' = rb_result
          /\ caller = "cmd" =>
               \/ pc' = "arm_end" /\ result' = "running"
                    /\ cur'.replies = <<"Err_VmReboot">>
               \/ pc' = "done" /\ result' = "Err_ApiResponseSend"
      ]_vars

C6_Witness ==
    pc = "done" /\ result = "Err_VmCreate" /\ cur = NoCmd

\* C7, as claimed, in the form a finite run refutes: when no exit or reset
\* signal was ever made, every enqueued command has been followed by its
\* signal on api_evt, and the thread is blocked in wait with api_evt at zero,
\* then no command is left in the channel.
C7_NoCommandLeftBehind ==
    /\ result = "running" /\ pc = "wait" /\ sigs = 0
    /\ http_pc = "idle" /\ api_evt = 0
    => chan = <<>>

\* C8, as claimed: at most one Vm object exists.
C8_AtMostOneVm == Cardinality(LiveVms) <= 1

\* C9: a successful VmCreate leaves the slot Some, a slot that is Some stays
\* Some, and a VmBoot or VmShutdown received while the slot is Some acts on
\* that VM and, unless sending fails, is sent its one reply.
C9_SlotStaysSome ==
    [][/\ pc = "create_store" /\ pc' # pc => vm'.some
       /\ vm.some => vm'.some
       /\ vm.some /\ pc = "recv" /\ pc' # pc
            /\ cur'.kind \in {"VmBoot", "VmShutdown"} =>
               /\ cur'.deq = "some"
               /\ vm'.some /\ vm'.id = vm.id
               /\ pc' = "arm_end" => Len(cur'.replies) = 1
      ]_vars

C9_Witness ==
    /\ pc = "arm_end" /\ cur.kind = "VmShutdown" /\ cur.deq = "some"
    /\ Len(cur.replies) = 1 /\ sigs = 1 /\ resetCredit = 0 /\ reset_evt = 0

\* the token each descriptor is meant to be dispatched to
TokenOf(fd) ==
    CASE fd = "stdin" -> "Stdin"
      [] fd = "exit_evt" -> "Exit"
      [] fd = "reset_evt" -> "Reset"
      [] fd = "api_evt" -> "Api"

\* C10: the dispatch table is None, then (Stdin if stdin is a terminal,) Exit,
\* Reset, Api; each descriptor is registered once, with the index of its own
\* token, never with index 0; the events a wait delivers carry these indices;
\* and this holds in every state, whatever was dispatched or rebuilt.
C10_DispatchTable ==
    /\ epoll.dispatch_table =
         IF isatty THEN <<"None", "Stdin", "Exit", "Reset", "Api">>
         ELSE <<"None", "Exit", "Reset", "Api">>
    /\ {r.fd : r \in epoll.registered} =
         {"exit_evt", "reset_evt", "api_evt"} \cup (IF isatty THEN {"stdin"} ELSE {})
    /\ Cardinality(epoll.registered) = Len(epoll.dispatch_table) - 1
    /\ \A r \in epoll.registered : r.data # 0 /\ TableAt(r.data) = TokenOf(r.fd)
    /\ \A i \in DOMAIN batch : \E r \in epoll.registered : r.data = batch[i]

C10_Witness ==
    /\ isatty /\ pc = "events" /\ Len(batch) = 3
    /\ vm.some /\ vm.booted /\ sigs = 2 /\ resetCredit = 0

\* C11: the thread returns Ok only from the driver's Shutdown arm, which is
\* entered only after control_loop read a non-zero exit_evt at an Exit event,
\* and exit_evt is raised only by a Vm signalling; on that arm the driver calls
\* shutdown once on the VM of the slot, if any, and returns Ok when the call
\* succeeded (or there was no VM) and Err(VmShutdown) when it failed.
C11_OkOnlyAfterExit ==
    [][/\ result' = "Ok" /\ result # "Ok" =>
            /\ pc = "ret" /\ exit_behaviour = "Shutdown"
            /\ vm.some => calls' = <<Call("shutdown", vm)>> /\ vm' = ShutDown(vm)
            /\ ~vm.some => calls' = <<>> /\ vm' = vm
       /\ pc = "ret" /\ exit_behaviour = "Shutdown" /\ pc' # pc =>
            /\ pc' = "done" /\ result' \in {"Ok", "Err_VmShutdown"}
            /\ Len(calls') = IF vm.some THEN 1 ELSE 0
            /\ result' = "Err_VmShutdown" <=>
                  vm.some /\ calls' = <<Call("shutdown_err", vm)>>
       /\ exit_behaviour' = "Shutdown" /\ exit_behaviour # "Shutdown" =>
            /\ pc = "events" /\ batch # <<>> /\ TableAt(Head(batch)) = "Exit"
            /\ exit_evt > 0 /\ pc' = "ret"
       /\ exit_evt' > exit_evt => sigs' = sigs + 1 /\ LiveVms # {}
      ]_vars

C11_Witness ==
    /\ pc = "done" /\ result = "Ok" /\ exit_behaviour = "Shutdown"
    /\ vm.some /\ vm.shutdowns = 1 /\ Len(calls) = 1 /\ calls[1].op = "shutdown"

\* C12, as claimed: no Vm object has shutdown called on it more than once.
C12_ShutdownAtMostOnce == \A v \in LiveVms : v.shutdowns <= 1

\* the descriptor a token is registered for
FdOf(token) ==
    CASE token = "Stdin" -> "stdin"
      [] token = "Exit" -> "exit_evt"
      [] token = "Reset" -> "reset_evt"
      [] token = "Api" -> "api_evt"

IsPrefix(a, b) == Len(a) <= Len(b) /\ SubSeq(b, 1, Len(a)) = a

vmmVars == <<pc, batch, cur, vm, newvm, caller, exit_behaviour, rb_result, result,
             calls, discarded>>

\* C14: an Api event the loop reaches while the channel is empty still drains
\* api_evt and leads to recv; while the thread is in recv with the channel
\* empty, no step changes its state (a write to exit_evt or reset_evt, input
\* on stdin and further writes to api_evt leave it where it is) except the
\* failure of recv on a channel whose Sender is gone, which ends the thread
\* with ApiRequestRecv; and the thread leaves recv otherwise only by taking a
\* command from the channel.
C14_BlockedInRecv ==
    [][/\ EventStep /\ TableAt(Head(batch)) = "Api" /\ chan = <<>> =>
            pc' = "recv" /\ api_evt' = 0
       /\ pc = "recv" /\ chan = <<>> =>
            \/ UNCHANGED vmmVars
            \/ http_pc = "closed" /\ pc' = "done" /\ result' = "Err_ApiRequestRecv"
       /\ pc = "recv" /\ pc' # pc /\ result' # "Err_ApiRequestRecv" =>
            chan # <<>> /\ chan' = Tail(chan) /\ cur'.kind = Head(chan).kind
       /\ result' = "Err_ApiRequestRecv" /\ result # "Err_ApiRequestRecv" =>
            pc = "recv" /\ chan = <<>> /\ http_pc = "closed"
      ]_vars

C14_Witness ==
    /\ pc = "recv" /\ chan = <<>> /\ api_evt = 0 /\ result = "running"
    /\ exit_evt > 0 /\ reset_evt > 0 /\ stdin_ready /\ isatty
    /\ http_pc = "enqueue"

\* C15: a Stdin event the loop reaches while the slot is Some makes one call of
\* handle_stdin on the VM of the slot, after which the loop goes on to the
\* next event, or, when the call failed, the thread ends with Err(Stdin); a
\* Stdin event reached while the slot is None makes no call, changes nothing
\* and is no error; Err(Stdin) has no other origin; and when stdin was not a
\* terminal at construction no batch ever holds a Stdin event, readable or
\* not.
C15_StdinForwarded ==
    /\ [](~isatty => "Stdin" \notin Tokens(batch)
                       /\ "Stdin" \notin {TokenOf(r.fd) : r \in epoll.registered})
    /\ [][/\ EventStep /\ TableAt(Head(batch)) = "Stdin" =>
               /\ vm' = vm /\ newvm' = newvm
               /\ vm.some =>
                     \/ /\ calls' = <<Call("handle_stdin", vm)>>
                        /\ pc' = "events" /\ batch' = Tail(batch)
                        /\ result' = "running"
                     \/ /\ calls' = <<Call("handle_stdin_err", vm)>>
                        /\ pc' = "done" /\ result' = "Err_Stdin"
               /\ ~vm.some =>
                     /\ calls' = <<>>
                     /\ pc' = "events" /\ batch' = Tail(batch)
                     /\ result' = "running" /\ stdin_ready' = stdin_ready
          /\ result' = "Err_Stdin" /\ result # "Err_Stdin" =>
               /\ pc = "events" /\ batch # <<>>
               /\ TableAt(Head(batch)) = "Stdin" /\ vm.some
         ]_vars

C15_Witness ==
    /\ isatty /\ pc = "events" /\ result = "running" /\ vm.some
    /\ calls = <<Call("handle_stdin", vm)>> /\ ~stdin_ready /\ batch # <<>>

\* C16: a VmCreate whose Vm::new succeeds stores the new VM in the slot and is
\* answered Ok; the VM the slot held until then is replaced and no call is
\* made on it; a VmCreate whose Vm::new fails leaves the slot as the command
\* found it, None or the same VM, and is answered Err(VmCreate).
C16_VmCreateSlot ==
    [][/\ pc = "recv" /\ pc' # pc /\ cur'.kind = "VmCreate" =>
            /\ vm' = vm /\ calls' = <<>>
            /\ pc' \in {"create_store", "arm_end", "done"}
            /\ pc' = "create_store" =>
                  /\ newvm'.some /\ newvm'.config = Head(chan).config
                  /\ ~newvm'.booted /\ newvm'.shutdowns = 0
                  /\ vm.some => newvm'.id # vm.id
            /\ pc' = "arm_end" =>
                  /\ cur'.replies = <<"Err_VmCreate">> /\ cur'.vmfail
                  /\ newvm' = NoVm
            /\ pc' = "done" =>
                  /\ result' \in {"Err_EventFdClone", "Err_ApiResponseSend"}
                  /\ newvm' = NoVm
       /\ pc = "create_store" /\ pc' # pc =>
            /\ vm' = newvm /\ newvm' = NoVm /\ calls' = <<>>
            /\ \/ pc' = "arm_end" /\ cur'.replies = <<"Ok">> /\ ~cur'.vmfail
               \/ pc' = "done" /\ result' = "Err_ApiResponseSend"
      ]_vars

C16_Witness ==
    /\ pc = "arm_end" /\ cur.kind = "VmCreate" /\ cur.deq = "some"
    /\ cur.replies = <<"Ok">> /\ vm.some /\ vm.config = "cfgB"
    /\ ~vm.booted /\ vm.shutdowns = 0 /\ enqueued = 2

\* C17, as claimed: the slot is None until a VmCreate is enqueued, and in
\* vm_reboot it is None between the shutdown of the old VM and the storing of
\* the VM that Vm::new returned.
C17_SlotNoneWhileRebuilt ==
    /\ enqueued = 0 => ~vm.some
    /\ pc = "rb_store" => ~vm.some

\* C17, amended: the slot is None until a VmCreate whose Vm::new succeeded
\* stores its VM, and Some in every state after that; no step empties it; in
\* vm_reboot it holds the old, shut-down VM from the shutdown until the new VM
\* is stored over it, so it goes from Some(old) to Some(new) with no None
\* between.
C17_SlotNeverEmptied ==
    /\ [](pc = "rb_store" => vm.some /\ vm.shutdowns >= 1 /\ newvm.some
                               /\ newvm.id # vm.id)
    /\ [][/\ ~vm.some /\ vm'.some => pc = "create_store" /\ vm' = newvm
          /\ vm.some => vm'.some
          /\ pc = "rb_start" /\ pc' # pc /\ vm.some => vm' = ShutDown(vm)
          /\ pc = "rb_store" /\ pc' # pc => vm'.id = newvm.id
         ]_vars

C17_Witness ==
    /\ pc = "rb_store" /\ caller = "driver" /\ vm.some /\ vm.booted
    /\ vm.shutdowns = 1 /\ newvm.some /\ newvm.config = vm.config

\* C18: without the acpi feature a vm_reboot on a held VM makes one call,
\* shutdown of that VM, and returns its outcome: it never reaches Vm::new or
\* boot, clones nothing, and the slot keeps the same VM, now shut down; when
\* the driver made it after a Reset outcome and the shutdown succeeded, the
\* thread does not end: it is in wait again with that VM in the slot.
C18_RebootIsShutdownWithoutAcpi ==
    /\ [](~acpi => pc # "rb_store")
    /\ [](~acpi /\ pc = "rb_ret" /\ vm.some =>
            /\ calls = <<Call("shutdown", vm)>>
            /\ vm.shutdowns >= 1 /\ newvm = NoVm
            /\ rb_result \in {"Ok", "Err_VmShutdown"})
    /\ [][/\ ~acpi /\ pc = "rb_start" /\ pc' # pc /\ vm.some =>
               vm' = ShutDown(vm) /\ pc' = "rb_ret" /\ newvm' = newvm
          /\ ~acpi /\ pc = "rb_ret" /\ caller = "driver" /\ rb_result = "Ok"
               /\ pc' # pc =>
               pc' = "wait" /\ result' = "running" /\ vm' = vm
         ]_vars

C18_Witness ==
    /\ ~acpi /\ pc = "wait" /\ result = "running"
    /\ sigs = 1 /\ resetCredit = 0 /\ reset_evt = 0 /\ exit_evt = 0
    /\ vm.some /\ vm.shutdowns = 1 /\ ~vm.booted /\ enqueued = 1

C20_ReadsFindSignal ==
    /\ result # "Err_EventFdRead"
    /\ \A i \in DOMAIN batch :
          /\ TableAt(batch[i]) = "Exit" => exit_evt >= 1
          /\ TableAt(batch[i]) = "Reset" => reset_evt >= 1
          /\ TableAt(batch[i]) = "Api" => api_evt >= 1
          /\ \A j \in DOMAIN batch : batch[i] = batch[j] => i = j
    /\ pc = "recv" => "Api" \notin Tokens(batch)

C20_Witness ==
    /\ pc = "events" /\ batch # <<>> /\ TableAt(Head(batch)) = "Api"
    /\ api_evt = 2 /\ Len(chan) = 2 /\ result = "running"

====
